---- MODULE Spec2Model ----
(***************************************************************************)
(* Model of WebTestDNS (src/main.py): the domain normalizer, the proxy     *)
(* health-check loop of main, the three probes check_dns, check_http and   *)
(* check_ssl (CONNECT tunnel + TLS certificate inspection), and the final  *)
(* display.                                                                *)
(*                                                                         *)
(* Conventions.                                                            *)
(*   - URL strings are sequences of one-character strings, so startswith,  *)
(*     find and slicing are computed as Python computes them.              *)
(*   - A proxy reply is the sequence of its lines (what splitlines()       *)
(*     gives); a line is a sequence of words.  The success marker holds no *)
(*     line break, so "marker in response" is "marker in some line".       *)
(*   - An optional value is a sequence: None is <<>>, a value x is <<x>>.  *)
(*   - Times are hours since an epoch that falls on a midnight.            *)
(***************************************************************************)
EXTENDS Integers, Sequences, FiniteSets, TLC

VARIABLES
    entry,      \* the function the run started in
    pc,         \* position in the program
    url_input,  \* main: the raw string given by the user
    domain,     \* main: parsed.netloc
    url,        \* main: the origin URL
    attempt,    \* main: loop variable of the health-check loop
    proxy_ok,   \* main
    country,    \* main
    log,        \* history: calls made, in order
    dns_i,      \* check_dns: index of the next r_type in record_types
    records,    \* check_dns: the insertion-ordered dict being built
    queries,    \* history of check_dns: the resolver calls and their outcomes
    dns_data,   \* main
    http_data,  \* main
    sock,       \* the descriptor opened by socket.create_connection
    response,   \* check_ssl: the decoded proxy reply
    peer,       \* the certificate the TLS server presented
    tz,         \* offset of the process's local time from UTC, as read by datetime.now()
    ssl_data    \* main

vars == << entry, pc, url_input, domain, url, attempt, proxy_ok, country, log,
           dns_i, records, queries, dns_data, http_data,
           sock, response, peer, tz, ssl_data >>

----------------------------------------------------------------------------
(* Bounds of the exploration. *)

MaxFrags == 4        \* an input string is made of at most this many fragments
MaxAnswers == 2      \* a DNS answer holds at most this many records
MaxReplyLines == 2   \* a proxy reply holds at most this many lines
MaxIssuerLen == 2    \* an issuer holds at most this many RDNs
MaxSpan == 30        \* notAfter lies within this many hours of the clock
NowUtc == 48         \* the clock (UTC) while check_ssl runs
TzHours == 5         \* the local time zone is this many hours off UTC, or UTC

(* Program constants. *)

max_retries == 5
HoursPerDay == 24

----------------------------------------------------------------------------
(* Strings *)

RECURSIVE Concat(_)
Concat(ss) == IF ss = <<>> THEN <<>> ELSE Head(ss) \o Concat(Tail(ss))

\* s.startswith(p)
StartsWith(s, p) == Len(s) >= Len(p) /\ SubSeq(s, 1, Len(p)) = p

\* s[i:] with i counted from 0, as Python slices
From(s, i) == SubSeq(s, i + 1, Len(s))

\* s.find(c) for a one-character c: the 0-based index of its first occurrence, or -1
Find(s, c) ==
    IF \E i \in 1..Len(s) : s[i] = c
    THEN (CHOOSE i \in 1..Len(s) : s[i] = c /\ \A j \in 1..(i - 1) : s[j] # c) - 1
    ELSE -1

\* p in s
Contains(s, p) == \E i \in 0..(Len(s) - Len(p)) : SubSeq(s, i + 1, i + Len(p)) = p

HTTP == << "h", "t", "t", "p" >>
HTTPS_PREFIX == << "h", "t", "t", "p", "s", ":", "/", "/" >>

\* urllib.parse.scheme_chars, restricted to the alphabet of the inputs
SchemeChars == { "h", "t", "p", "s", "a", "b", "i", "n", "o", "r", "g", "." }

\* the characters that end a netloc
NetlocDelims == { "/", "?", "#" }

\* urlparse(url).netloc: a scheme is split off when the text before the first
\* ":" is made of scheme characters; a netloc exists only when the rest starts
\* with "//", and runs up to the first of "/", "?", "#".
Netloc(u) ==
    LET i == Find(u, ":")
        hasScheme == i > 0 /\ \A j \in 1..i : u[j] \in SchemeChars
        rest == IF hasScheme THEN From(u, i + 1) ELSE u
    IN  IF StartsWith(rest, << "/", "/" >>)
        THEN LET body == From(rest, 2)
                 stops == { j \in 1..Len(body) : body[j] \in NetlocDelims }
                 stop == IF stops = {} THEN Len(body) + 1
                         ELSE CHOOSE j \in stops : \A k \in stops : j <= k
             IN  SubSeq(body, 1, stop - 1)
        ELSE <<>>

get_domain_from_url(s) ==
    LET u == IF ~StartsWith(s, HTTP) THEN HTTPS_PREFIX \o s ELSE s
    IN  << Netloc(u), u >>

Frags == { HTTP,
           << "h", "t", "t", "p", "s" >>,
           << ":", "/", "/" >>,
           << "/" >>,
           << ":" >>,
           << "." >>,
           << "a" >>,
           << "b", "i", "n", ".", "o", "r", "g" >> }

FragLists == UNION { [1..n -> Frags] : n \in 0..MaxFrags }

Inputs == { Concat(fs) : fs \in FragLists }

\* the inputs a whole run of main draws from
MainInputs == { << "a" >>,
                HTTP \o << "b", "i", "n", ".", "o", "r", "g" >> }

----------------------------------------------------------------------------
(* Insertion-ordered dicts: a sequence of <<key, value>> pairs. *)

DictKeys(d) == [i \in 1..Len(d) |-> d[i][1]]

DictHas(d, k) == \E i \in 1..Len(d) : d[i][1] = k

\* d[k] = v
DictSet(d, k, v) ==
    IF DictHas(d, k)
    THEN [i \in 1..Len(d) |-> IF d[i][1] = k THEN << k, v >> ELSE d[i]]
    ELSE Append(d, << k, v >>)

\* d.get(k, default)
DictGet(d, k, default) ==
    IF DictHas(d, k) THEN (CHOOSE p \in { d[i] : i \in 1..Len(d) } : p[1] = k)[2]
    ELSE default

----------------------------------------------------------------------------
(* Result records *)

HttpUnset == [status_code |-> <<>>, redirects |-> <<>>, server |-> <<>>, error |-> <<>>]

SslUnset == [valid |-> FALSE, expiry |-> <<>>, days_left |-> <<>>, issuer |-> <<>>,
             error |-> <<>>]

\* the record of every failure return of check_ssl
SslFailure(msg) ==
    [valid |-> FALSE, expiry |-> <<>>, days_left |-> <<>>, issuer |-> <<>>,
     error |-> << msg >>]

\* the values a call draws from: every one when the function is run alone,
\* a few representative ones within a whole run of main
Pool(all, some) == IF entry = "main" THEN some ELSE all

\* where a function goes when it returns: back into main, or the run ends
\* when the function was the one the run started in
ReturnTo(fn, next) == IF entry = fn THEN "done" ELSE next

----------------------------------------------------------------------------
(* main: normalisation *)

Normalize ==
    /\ pc = "normalize"
    /\ domain' = get_domain_from_url(url_input)[1]
    /\ url' = get_domain_from_url(url_input)[2]
    /\ pc' = ReturnTo("get_domain_from_url", "loop")
    /\ UNCHANGED << entry, url_input, attempt, proxy_ok, country, log, dns_i, records,
                    queries, dns_data, http_data, sock, response, peer, tz, ssl_data >>

----------------------------------------------------------------------------
(* Proxy health check *)

\* what requests.get(...) and response.json() can give verify_proxy_connection
GeoReplies ==
    { [raised |-> TRUE,  status |-> 0,   json_ok |-> FALSE, country_name |-> <<>>],
      [raised |-> FALSE, status |-> 200, json_ok |-> TRUE,  country_name |-> << "Spain" >>],
      [raised |-> FALSE, status |-> 200, json_ok |-> TRUE,  country_name |-> <<>>],
      [raised |-> FALSE, status |-> 200, json_ok |-> FALSE, country_name |-> <<>>],
      [raised |-> FALSE, status |-> 407, json_ok |-> TRUE,  country_name |-> <<>>] }

verify_proxy_connection(r) ==
    IF r.raised THEN << FALSE, "Unknown" >>
    ELSE IF r.status = 200
         THEN IF ~r.json_ok THEN << FALSE, "Unknown" >>
              ELSE << TRUE, IF r.country_name = <<>> THEN "Unknown"
                            ELSE r.country_name[1] >>
         ELSE << FALSE, "Unknown" >>

\* RetryAfter with the test on the attempt number lost: a sleep after every failure
RetryAfterEveryFailure(a) == TRUE

\* attempt < max_retries: a failed attempt is followed by a sleep
RetryAfter(a) == a < max_retries

\* one iteration of the for loop up to its sleep: the call, and the break,
\* the retry message or the final failure message
ProxyAttempt ==
    /\ pc = "loop"
    /\ attempt < max_retries
    /\ \E r \in GeoReplies :
         LET res == verify_proxy_connection(r)
             a == attempt + 1
         IN  /\ attempt' = a
             /\ proxy_ok' = res[1]
             /\ country' = res[2]
             /\ log' = Append(log, IF res[1] THEN "verify_ok" ELSE "verify_fail")
             /\ pc' = IF res[1] THEN "call_dns"
                      ELSE IF RetryAfter(a) THEN "sleep"
                      ELSE "call_dns"
    /\ UNCHANGED << entry, url_input, domain, url, dns_i, records, queries, dns_data,
                    http_data, sock, response, peer, tz, ssl_data >>

\* time.sleep(1), then the next iteration
ProxySleep ==
    /\ pc = "sleep"
    /\ log' = Append(log, "sleep")
    /\ pc' = "loop"
    /\ UNCHANGED << entry, url_input, domain, url, attempt, proxy_ok, country, dns_i,
                    records, queries, dns_data, http_data, sock, response, peer, tz,
                    ssl_data >>

----------------------------------------------------------------------------
(* check_dns *)

record_types == << "A", "AAAA", "MX", "NS", "TXT" >>

\* how resolver.resolve can end
DnsOutcomes == { "answer", "NoAnswer", "NXDOMAIN", "NoNameservers", "Timeout", "Other" }

\* the exceptions of the first except clause
NotFound == { "NoAnswer", "NXDOMAIN", "NoNameservers", "Timeout" }

\* the texts of a non-empty answer
Answers == { [i \in 1..n |-> "rdata"] : n \in 1..MaxAnswers }

MainAnswers == { << "rdata" >> }

\* DnsEntry with NXDOMAIN missing from the first except clause
DnsEntryNxdomainUncaught(outcome, answers) ==
    IF outcome = "answer" THEN answers
    ELSE IF outcome \in NotFound \ { "NXDOMAIN" } THEN <<>>
    ELSE << "Error: resolver failure" >>

\* the value stored for one r_type
DnsEntry(outcome, answers) ==
    IF outcome = "answer" THEN answers
    ELSE IF outcome \in NotFound THEN <<>>
    ELSE << "Error: resolver failure" >>

CallDns ==
    /\ pc = "call_dns"
    /\ log' = Append(log, "check_dns")
    /\ records' = <<>>
    /\ dns_i' = 1
    /\ queries' = <<>>
    /\ pc' = "dns_loop"
    /\ UNCHANGED << entry, url_input, domain, url, attempt, proxy_ok, country, dns_data,
                    http_data, sock, response, peer, tz, ssl_data >>

\* one iteration of the loop over record_types
DnsQuery ==
    /\ pc = "dns_loop"
    /\ dns_i <= Len(record_types)
    /\ \E o \in DnsOutcomes, ans \in Pool(Answers, MainAnswers) :
         LET r_type == record_types[dns_i]
             got == IF o = "answer" THEN ans ELSE <<>>
         IN  /\ records' = DictSet(records, r_type, DnsEntry(o, got))
             /\ queries' = Append(queries, [r_type |-> r_type, outcome |-> o,
                                            answers |-> got])
    /\ dns_i' = dns_i + 1
    /\ UNCHANGED << entry, pc, url_input, domain, url, attempt, proxy_ok, country, log,
                    dns_data, http_data, sock, response, peer, tz, ssl_data >>

\* return records: the locals of the call end with it
DnsReturn ==
    /\ pc = "dns_loop"
    /\ dns_i > Len(record_types)
    /\ dns_data' = records
    /\ records' = <<>>
    /\ queries' = <<>>
    /\ dns_i' = 0
    /\ pc' = ReturnTo("check_dns", "call_http")
    /\ UNCHANGED << entry, url_input, domain, url, attempt, proxy_ok, country, log,
                    http_data, sock, response, peer, tz, ssl_data >>

----------------------------------------------------------------------------
(* check_http *)

\* what requests.get(url, ...) can do: give a response, raise a
\* RequestException, or raise an exception of another class
HttpOutcomes ==
    { [kind |-> "response", status |-> 200, history |-> 0, server |-> << "nginx" >>],
      [kind |-> "response", status |-> 404, history |-> 1, server |-> <<>>],
      [kind |-> "RequestException", status |-> 0, history |-> 0, server |-> <<>>],
      [kind |-> "OtherException", status |-> 0, history |-> 0, server |-> <<>>] }

\* the exception classes the except clause of check_http names
HttpCaught == { "RequestException" }

HttpResult(o) ==
    IF o.kind = "response"
    THEN [status_code |-> << o.status >>, redirects |-> << o.history >>,
          server |-> << IF o.server = <<>> THEN "Unknown" ELSE o.server[1] >>,
          error |-> <<>>]
    ELSE [status_code |-> <<>>, redirects |-> <<>>, server |-> <<>>,
          error |-> << o.kind >>]

\* the whole call http_data = check_http(url); an exception the function
\* does not catch leaves main too, which catches only KeyboardInterrupt
CheckHttp ==
    /\ pc = "call_http"
    /\ log' = Append(log, "check_http")
    /\ \E o \in HttpOutcomes :
         IF o.kind = "response" \/ o.kind \in HttpCaught
         THEN /\ http_data' = HttpResult(o)
              /\ pc' = "call_ssl"
         ELSE /\ http_data' = http_data
              /\ pc' = "aborted"
    /\ UNCHANGED << entry, url_input, domain, url, attempt, proxy_ok, country, dns_i,
                    records, queries, dns_data, sock, response, peer, tz, ssl_data >>

----------------------------------------------------------------------------
(* check_ssl: the environment *)

\* urlparse(PROXY_URL).hostname and .port
PROXY == [hostname |-> "proxy.geonode.io", port |-> 9000]

MARKER == << "200", "Connection", "established" >>

\* the lines a proxy reply is made of
Lines == { << "HTTP/1.1", "200", "Connection", "established" >>,
           << "HTTP/1.1", "407", "Proxy", "Authentication", "Required" >>,
           << "HTTP/1.1", "200", "OK" >>,
           << "X-Note:", "200", "Connection", "established" >>,
           <<>> }

Replies == UNION { [1..n -> Lines] : n \in 0..MaxReplyLines }

MainReplies == { << << "HTTP/1.1", "200", "Connection", "established" >> >>,
                 << << "HTTP/1.1", "407", "Proxy", "Authentication", "Required" >> >>,
                 << << "HTTP/1.1", "407", "Proxy", "Authentication", "Required" >>,
                    << "X-Note:", "200", "Connection", "established" >> >>,
                 <<>> }

\* "200 Connection established" in response
InResponse(resp) == \E i \in 1..Len(resp) : Contains(resp[i], MARKER)

\* the attributes of an issuer RDN: well-formed (key, value) pairs, and
\* tuples of another length
Attrs == { << "organizationName", "Acme" >>,
           << "countryName", "US" >>,
           << "organizationName" >>,
           <<>> }

\* an RDN is a tuple of attributes: empty, of one attribute, or multi-valued
Rdns == { <<>> } \cup { << a >> : a \in Attrs } \cup
        { << << "countryName", "US" >>, << "organizationName", "Acme" >> >> }

IssuerLists == UNION { [1..n -> Rdns] : n \in 0..MaxIssuerLen }

\* the 'issuer' entry of the certificate dict: missing, or a list of RDNs
Issuers == { [has |-> FALSE, list |-> <<>>] } \cup
           { [has |-> TRUE, list |-> l] : l \in IssuerLists }

NotAfterTimes == (NowUtc - MaxSpan)..(NowUtc + MaxSpan)

TzOffsets == { 0 - TzHours, 0, TzHours }

\* a server that presents no certificate (getpeercert() gives an empty dict)
NoCertPeer == [present |-> FALSE, date_ok |-> FALSE, notAfter |-> 0,
               issuer |-> [has |-> FALSE, list |-> <<>>]]

AllPeers ==
    { NoCertPeer } \cup
    { [present |-> TRUE, date_ok |-> TRUE, notAfter |-> t, issuer |-> i] :
        t \in NotAfterTimes, i \in Issuers } \cup
    { [present |-> TRUE, date_ok |-> FALSE, notAfter |-> 0, issuer |-> i] :
        i \in Issuers }

GoodIssuer == [has |-> TRUE, list |-> << << << "countryName", "US" >> >>,
                                         << << "organizationName", "Acme" >> >> >>]

BadIssuer == [has |-> TRUE, list |-> << << << "organizationName" >> >> >>]

\* the servers a whole run of main draws from
MainPeers ==
    { NoCertPeer } \cup
    { [present |-> TRUE, date_ok |-> TRUE, notAfter |-> t, issuer |-> GoodIssuer] :
        t \in { NowUtc - MaxSpan, NowUtc - 1, NowUtc + 1, NowUtc + MaxSpan } } \cup
    { [present |-> TRUE, date_ok |-> TRUE, notAfter |-> NowUtc + MaxSpan,
       issuer |-> BadIssuer] }

\* CertAccepted for a context that does not verify the peer
CertAcceptedUnverified(p) == TRUE

\* ssl.create_default_context() verifies the peer (CERT_REQUIRED): the
\* handshake rejects a certificate whose notAfter is not after the clock.
\* That a handshake can succeed with no certificate, or with one whose date
\* does not parse, is allowed here so that every branch of the code is explored.
CertAccepted(p) == p.present /\ p.date_ok => p.notAfter > NowUtc

----------------------------------------------------------------------------
(* check_ssl: certificate parsing *)

\* the loop over issuer_list: the dict it builds, or the exception raised by
\* "key, val = item[0]" when item[0] is not a pair
RECURSIVE IssuerLoop(_, _)
IssuerLoop(list, dict) ==
    IF list = <<>> THEN [raised |-> FALSE, dict |-> dict]
    ELSE LET item == Head(list)
         IN  IF item # <<>> /\ Len(item) > 0 /\ item[1] # <<>>
             THEN IF Len(item[1]) = 2
                  THEN IssuerLoop(Tail(list), DictSet(dict, item[1][1], item[1][2]))
                  ELSE [raised |-> TRUE, dict |-> dict]
             ELSE IssuerLoop(Tail(list), dict)

\* cert.get('issuer', [])
IssuerList(p) == IF p.issuer.has THEN p.issuer.list ELSE <<>>

\* (expiry_date - datetime.now()).days, datetime.now() being naive local time
DaysLeft(notAfter, offset) == (notAfter - (NowUtc + offset)) \div HoursPerDay

\* expiry_date.strftime('%Y-%m-%d'): the calendar day
ExpiryDay(notAfter) == notAfter \div HoursPerDay

\* the body of the with block, from getpeercert() to its return or exception
InspectCert(p, offset) ==
    IF ~p.present THEN SslFailure(<< "No certificate found" >>)
    ELSE IF ~p.date_ok THEN SslFailure(<< "time data does not match format" >>)
    ELSE LET r == IssuerLoop(IssuerList(p), <<>>)
         IN  IF r.raised THEN SslFailure(<< "values to unpack" >>)
             ELSE [valid |-> TRUE,
                   expiry |-> << ExpiryDay(p.notAfter) >>,
                   days_left |-> << DaysLeft(p.notAfter, offset) >>,
                   issuer |-> << DictGet(r.dict, "organizationName", "Unknown") >>,
                   error |-> <<>>]

----------------------------------------------------------------------------
(* check_ssl: the steps *)

\* where check_ssl goes after each step that can fail
AfterConnect(ok) == IF ok THEN "ssl_send" ELSE ReturnTo("check_ssl", "display")
AfterSendRetry(ok) == IF ok THEN "ssl_recv" ELSE "ssl_connect"
AfterSend(ok) == IF ok THEN "ssl_recv" ELSE ReturnTo("check_ssl", "display")
AfterRecv(ok) == IF ok THEN "ssl_check" ELSE ReturnTo("check_ssl", "display")
AfterCheck(ok) == IF ok THEN "ssl_handshake" ELSE ReturnTo("check_ssl", "display")
AfterHandshake(ok) == IF ok THEN "ssl_inspect" ELSE ReturnTo("check_ssl", "display")

\* the call, and the proxy configuration check
CallSsl ==
    /\ pc = "call_ssl"
    /\ log' = Append(log, "check_ssl")
    /\ IF PROXY.hostname = "" \/ PROXY.port = 0
       THEN /\ ssl_data' = SslFailure(<< "Invalid proxy configuration" >>)
            /\ pc' = ReturnTo("check_ssl", "display")
       ELSE /\ ssl_data' = ssl_data
            /\ pc' = "ssl_connect"
    /\ UNCHANGED << entry, url_input, domain, url, attempt, proxy_ok, country, dns_i,
                    records, queries, dns_data, http_data, sock, response, peer, tz >>

\* s = socket.create_connection(...)
SslConnect ==
    /\ pc = "ssl_connect"
    /\ log' = Append(log, "connect")
    /\ \E ok \in BOOLEAN :
         /\ sock' = IF ok THEN "open" ELSE sock
         /\ ssl_data' = IF ok THEN ssl_data ELSE SslFailure(<< "connect failed" >>)
         /\ pc' = AfterConnect(ok)
    /\ UNCHANGED << entry, url_input, domain, url, attempt, proxy_ok, country, dns_i,
                    records, queries, dns_data, http_data, response, peer, tz >>

\* s.sendall(connect_req.encode())
SslSend ==
    /\ pc = "ssl_send"
    /\ log' = Append(log, "send")
    /\ \E ok \in BOOLEAN :
         /\ ssl_data' = IF ok THEN ssl_data ELSE SslFailure(<< "send failed" >>)
         /\ pc' = AfterSend(ok)
    /\ UNCHANGED << entry, url_input, domain, url, attempt, proxy_ok, country, dns_i,
                    records, queries, dns_data, http_data, sock, response, peer, tz >>

\* response = s.recv(4096).decode(): a reply, or recv raises, or decode raises
SslRecv ==
    /\ pc = "ssl_recv"
    /\ log' = Append(log, "recv")
    /\ \/ \E r \in Pool(Replies, MainReplies) :
            /\ response' = r
            /\ ssl_data' = ssl_data
            /\ pc' = AfterRecv(TRUE)
       \/ \E msg \in { "timed out", "codec can't decode" } :
            /\ response' = response
            /\ ssl_data' = SslFailure(<< msg >>)
            /\ pc' = AfterRecv(FALSE)
    /\ UNCHANGED << entry, url_input, domain, url, attempt, proxy_ok, country, dns_i,
                    records, queries, dns_data, http_data, sock, peer, tz >>

\* the test of the reply; response is not read after it.  An empty reply
\* makes response.splitlines()[0] raise IndexError, after s.close()
SslCheckReply ==
    /\ pc = "ssl_check"
    /\ IF ~InResponse(response)
       THEN /\ sock' = "closed"
            /\ log' = Append(log, "refused")
            /\ ssl_data' = IF response = <<>>
                           THEN SslFailure(<< "list index out of range" >>)
                           ELSE SslFailure(<< "Proxy connection failed:" >> \o response[1])
            /\ pc' = AfterCheck(FALSE)
       ELSE /\ sock' = sock
            /\ log' = Append(log, "accepted")
            /\ ssl_data' = ssl_data
            /\ pc' = AfterCheck(TRUE)
    /\ response' = <<>>
    /\ UNCHANGED << entry, url_input, domain, url, attempt, proxy_ok, country, dns_i,
                    records, queries, dns_data, http_data, peer, tz >>

\* context.wrap_socket(s, server_hostname=domain).  An empty server_hostname
\* raises ValueError before the socket is touched.  Otherwise the SSLSocket
\* takes the descriptor over (s.detach()) and closes it when the handshake fails.
SslHandshake ==
    /\ pc = "ssl_handshake"
    /\ log' = Append(log, "handshake")
    /\ IF domain = <<>>
       THEN /\ sock' = sock
            /\ peer' = peer
            /\ ssl_data' = SslFailure(<< "check_hostname requires server_hostname" >>)
            /\ pc' = AfterHandshake(FALSE)
       ELSE \E p \in Pool(AllPeers, MainPeers), net_ok \in BOOLEAN :
            LET ok == net_ok /\ CertAccepted(p)
            IN  /\ peer' = p
                /\ sock' = IF ok THEN "tls" ELSE "closed"
                /\ ssl_data' = IF ok THEN ssl_data
                               ELSE IF ~CertAccepted(p)
                                    THEN SslFailure(<< "certificate verify failed" >>)
                                    ELSE SslFailure(<< "handshake failed" >>)
                /\ pc' = AfterHandshake(ok)
    /\ UNCHANGED << entry, url_input, domain, url, attempt, proxy_ok, country, dns_i,
                    records, queries, dns_data, http_data, response, tz >>

\* the with block: its body, and the close of ssock when it is left
SslInspect ==
    /\ pc = "ssl_inspect"
    /\ log' = Append(log, "getpeercert")
    /\ \E z \in TzOffsets :
         /\ tz' = IF peer.present /\ peer.date_ok THEN z ELSE tz
         /\ ssl_data' = InspectCert(peer, z)
    /\ sock' = "closed"
    /\ pc' = ReturnTo("check_ssl", "display")
    /\ UNCHANGED << entry, url_input, domain, url, attempt, proxy_ok, country, dns_i,
                    records, queries, dns_data, http_data, response, peer >>

----------------------------------------------------------------------------
(* main: the display *)

Display ==
    /\ pc = "display"
    /\ log' = Append(log, "display")
    /\ pc' = "done"
    /\ UNCHANGED << entry, url_input, domain, url, attempt, proxy_ok, country, dns_i,
                    records, queries, dns_data, http_data, sock, response, peer, tz,
                    ssl_data >>

----------------------------------------------------------------------------
(* Specifications *)

\* the state before anything ran, but for the entry point and its arguments
Start(fn, at, input, host) ==
    /\ entry = fn
    /\ pc = at
    /\ url_input = input
    /\ domain = host
    /\ url = <<>>
    /\ attempt = 0
    /\ proxy_ok = FALSE
    /\ country = "Unknown"
    /\ log = <<>>
    /\ dns_i = 0
    /\ records = <<>>
    /\ queries = <<>>
    /\ dns_data = <<>>
    /\ http_data = HttpUnset
    /\ sock = "none"
    /\ response = <<>>
    /\ peer = NoCertPeer
    /\ tz = 0
    /\ ssl_data = SslUnset

\* the hosts check_dns and check_ssl are called with when they are run alone
Hosts == { get_domain_from_url(s)[1] : s \in MainInputs }

\* a whole run of main
Init == \E s \in MainInputs : Start("main", "normalize", s, <<>>)

Next ==
    \/ Normalize
    \/ ProxyAttempt
    \/ ProxySleep
    \/ CallDns
    \/ DnsQuery
    \/ DnsReturn
    \/ CheckHttp
    \/ CallSsl
    \/ SslConnect
    \/ SslSend
    \/ SslRecv
    \/ SslCheckReply
    \/ SslHandshake
    \/ SslInspect
    \/ Display

Spec == Init /\ [][Next]_vars

\* get_domain_from_url alone
InitUrl == \E s \in Inputs : Start("get_domain_from_url", "normalize", s, <<>>)

NextUrl == Normalize

SpecUrl == InitUrl /\ [][NextUrl]_vars

\* check_dns alone
InitDns == \E h \in Hosts : Start("check_dns", "call_dns", <<>>, h)

NextDns ==
    \/ CallDns
    \/ DnsQuery
    \/ DnsReturn

SpecDns == InitDns /\ [][NextDns]_vars

\* check_ssl alone
InitSsl == \E h \in Hosts : Start("check_ssl", "call_ssl", <<>>, h)

NextSsl ==
    \/ CallSsl
    \/ SslConnect
    \/ SslSend
    \/ SslRecv
    \/ SslCheckReply
    \/ SslHandshake
    \/ SslInspect

SpecSsl == InitSsl /\ [][NextSsl]_vars

----------------------------------------------------------------------------
(* Properties *)

Range(q) == { q[i] : i \in 1..Len(q) }

Count(q, e) == Cardinality({ i \in 1..Len(q) : q[i] = e })

IsPrefix(a, b) == Len(a) <= Len(b) /\ a = SubSeq(b, 1, Len(a))

\* check_ssl has returned: every return assigns a result that names an
\* error or is valid
SslReturned == ssl_data # SslUnset

\* C1: once the socket to the proxy was opened, check_ssl never returns with
\* it still open, whichever step failed and also on success.
C1_SocketClosedOnReturn ==
    SslReturned /\ "connect" \in Range(log) => sock \in { "none", "closed" }

IsLoopEvent(e) == e \in { "verify_ok", "verify_fail", "sleep" }

LoopLog == SelectSeq(log, IsLoopEvent)

LoopCalls == Count(log, "verify_ok") + Count(log, "verify_fail")

LoopOver == pc \notin { "normalize", "loop", "sleep" }

\* C2: the health-check loop calls verify_proxy_connection at most 5 times,
\* nothing of the loop follows a successful call, each failed call but the
\* fifth is followed by one sleep and only failed calls are, and a run in
\* which every call fails makes exactly 5 calls and 4 sleeps.
C2_RetryPolicy ==
    LET L == LoopLog
        n == Len(L)
    IN  /\ LoopCalls <= 5
        /\ Count(log, "sleep") <= 4
        /\ \A i \in 1..n : L[i] = "verify_ok" => i = n
        /\ \A i \in 1..n : L[i] = "sleep" => i > 1 /\ L[i - 1] = "verify_fail"
        /\ \A i \in 1..(n - 1) : L[i] = "verify_fail" => L[i + 1] = "sleep"
        /\ \A i \in 1..(n - 1) : L[i] = "sleep" => L[i + 1] # "sleep"
        /\ pc = "sleep" => n > 0 /\ L[n] = "verify_fail" /\ LoopCalls < 5
        /\ LoopOver =>
             \/ proxy_ok /\ L[n] = "verify_ok"
             \/ /\ ~proxy_ok
                /\ L[n] = "verify_fail"
                /\ LoopCalls = 5
                /\ Count(log, "sleep") = 4

\* C2 witness: the loop is over after five failed calls and four sleeps
C2_AllAttemptsFailed ==
    LoopOver /\ ~proxy_ok /\ LoopCalls = 5 /\ Count(log, "sleep") = 4

IsRunEvent(e) == e \in { "check_dns", "check_http", "check_ssl", "display" }

\* C3: whatever the health check gave, a run that has ended has called
\* check_dns, check_http and check_ssl once each, in that order, and has
\* reached the display.
C3_AllProbesThenDisplay ==
    pc \in { "done", "aborted" } =>
        SelectSeq(log, IsRunEvent) = << "check_dns", "check_http", "check_ssl", "display" >>

\* C4: no probe raises into main: the run is never ended by an exception of
\* a probe, and each probe that was called and left has handed main a result.
C4_ProbesNeverRaise ==
    /\ pc # "aborted"
    /\ "check_http" \in Range(log) /\ pc # "call_http" => http_data # HttpUnset
    /\ "check_ssl" \in Range(log) /\ pc \in { "display", "done" } => SslReturned

\* the server presented a certificate whose notAfter parses
Presented == "handshake" \in Range(log) /\ peer.present /\ peer.date_ok

ClaimedOrg(p) ==
    LET attrs == UNION { Range(r) : r \in Range(IssuerList(p)) }
        vals == { a[2] : a \in { x \in attrs : Len(x) = 2 /\ x[1] = "organizationName" } }
    IN  IF vals = {} THEN "Unknown" ELSE CHOOSE v \in vals : TRUE

\* C6: once a certificate with a parseable notAfter was obtained, the result
\* is the valid variant for every issuer value, with the expiry and
\* days_left of the certificate, and the organizationName or "Unknown".
C6_IssuerNeverAborts ==
    SslReturned /\ Presented /\ "getpeercert" \in Range(log) =>
        /\ ssl_data.valid
        /\ ssl_data.expiry = << ExpiryDay(peer.notAfter) >>
        /\ ssl_data.days_left = << DaysLeft(peer.notAfter, tz) >>
        /\ ssl_data.issuer = << ClaimedOrg(peer) >>

FirstLine(resp) == IF resp = <<>> THEN <<>> ELSE resp[1]

\* C7: the handshake is started only when the first line of the reply holds
\* the marker; for every other reply the call returns the failure whose
\* error reports that first line.
C7_FirstLineDecides ==
    [][ pc = "ssl_check" =>
          IF Contains(FirstLine(response), MARKER)
          THEN pc' = "ssl_handshake"
          ELSE /\ pc' # "ssl_handshake"
               /\ ssl_data' = SslFailure(<< "Proxy connection failed:" >>
                                         \o FirstLine(response)) ]_vars

\* C8: the mapping check_dns builds has the keys A, AAAA, MX, NS, TXT in that
\* order, one resolver call per type, each entry decided by the outcome of
\* its own call alone: an empty list for the four not-found and timeout
\* outcomes, the answer's records for an answer, one error string otherwise.
C8_DnsMapping ==
    /\ DictKeys(records) = SubSeq(<< "A", "AAAA", "MX", "NS", "TXT" >>, 1, Len(records))
    /\ Len(queries) = Len(records)
    /\ \A i \in 1..Len(queries) :
         /\ queries[i].r_type = records[i][1]
         /\ queries[i].outcome \in { "NoAnswer", "NXDOMAIN", "NoNameservers", "Timeout" }
              => records[i][2] = <<>>
         /\ queries[i].outcome = "answer"
              => records[i][2] = queries[i].answers /\ records[i][2] # <<>>
         /\ queries[i].outcome = "Other"
              => records[i][2] = << "Error: resolver failure" >>
    /\ pc = "dns_loop" /\ dns_i > 5 => Len(records) = 5
    /\ pc # "dns_loop" /\ "check_dns" \in Range(log)
         => DictKeys(dns_data) = << "A", "AAAA", "MX", "NS", "TXT" >>

\* C8 witness: the call is about to return a mapping built from an NXDOMAIN,
\* another failure and an answer
C8_MixedOutcomes ==
    /\ pc = "dns_loop"
    /\ dns_i > 5
    /\ queries[1].outcome = "NXDOMAIN"
    /\ queries[2].outcome = "Other"
    /\ queries[3].outcome = "answer"
    /\ records[1][2] = <<>>
    /\ Len(records[2][2]) = 1

\* s starts with a scheme followed by "://"
HasScheme(s) ==
    \E i \in 1..(Len(s) - 3) :
        /\ SubSeq(s, i + 1, i + 3) = << ":", "/", "/" >>
        /\ \A j \in 1..i : s[j] \in SchemeChars

\* the part of u after its first "://", up to the first "/"
HostPart(u) ==
    LET i == CHOOSE k \in 0..(Len(u) - 3) :
                 /\ SubSeq(u, k + 1, k + 3) = << ":", "/", "/" >>
                 /\ \A m \in 0..(k - 1) : SubSeq(u, m + 1, m + 3) # << ":", "/", "/" >>
        body == From(u, i + 3)
        j == Find(body, "/")
    IN  IF j < 0 THEN body ELSE SubSeq(body, 1, j)

\* C9: for an input without a scheme the origin URL is "https://" followed
\* by the input and the host is the part of it after "://" up to the first
\* "/"; the origin URL always has a scheme, the host never a scheme or a path.
C9_Normalizer ==
    pc = "done" =>
        /\ ~HasScheme(url_input) =>
             /\ url = HTTPS_PREFIX \o url_input
             /\ domain = HostPart(url)
        /\ HasScheme(url)
        /\ ~Contains(domain, << ":", "/", "/" >>)
        /\ ~Contains(domain, << "/" >>)

IsSslEvent(e) ==
    e \in { "connect", "send", "recv", "accepted", "refused", "handshake", "getpeercert" }

\* C10: a call of check_ssl goes through connect, send, read and check of
\* the reply, handshake, certificate in that order, each at most once, the
\* handshake only after the reply was accepted, and a step that failed ends
\* the call.
C10_TunnelOrder ==
    LET E == SelectSeq(log, IsSslEvent)
    IN  /\ \/ IsPrefix(E, << "connect", "send", "recv", "accepted", "handshake",
                             "getpeercert" >>)
           \/ E = << "connect", "send", "recv", "refused" >>
        /\ SslReturned => pc \in { "done", "display" }
        /\ sock = "tls" => "handshake" \in Range(E)
        /\ sock = "none" => Len(E) <= 1

\* C10 witness: the call went through every step and returned a certificate
C10_FullRun ==
    /\ SelectSeq(log, IsSslEvent) =
         << "connect", "send", "recv", "accepted", "handshake", "getpeercert" >>
    /\ ssl_data.valid
    /\ sock = "closed"

====
